---- MODULE Spec2Model ----
(***************************************************************************)
(* ytsum: the check-and-process pipeline (scheduler.check_and_process) and *)
(* the store operations it uses (database.Database).                       *)
(*                                                                         *)
(* One process is one caller of check_and_process: the scheduler loop      *)
(* (scheduler.run_scheduler) and a manually triggered run (web.run_check,  *)
(* cli.cmd_run).  Every store operation is one transaction and so one      *)
(* step; add_video and increment_video_failed_attempts read first and      *)
(* write afterwards and are two steps each.                                *)
(***************************************************************************)
EXTENDS Integers, Sequences, FiniteSets, TLC

\* ---------------------------------------------------------------- bounds
MaxCycles == 2         \* cycles one after another in one behaviour
FaultCycles == 1       \* cycles in a behaviour with store faults
MaxFaults == 1         \* store operations that raise in one behaviour
MaxClock == 2          \* last reading of the clock, in ticks
TicksPerSecond == 2    \* clock ticks that make one second
MaxResults == 1        \* videos in one answer of the Metadata Client
IngestResults == 3     \* videos in one answer, in a behaviour about discovery
ExtraVideos == 1       \* videos beyond the batch size of a stage, in a behaviour about the caps
MaxMinutes == 61       \* last reading of the scheduler's clock, in minutes
JobMinutes == 1        \* longest cycle, in minutes of the scheduler's clock
ProgressCycles == 3    \* cycles one after another, in a behaviour about the progress of the stages

\* ------------------------------------------------------ program constants
MaxFailedAttempts == 10    \* get_videos_without_transcripts(max_failed_attempts=10)
TranscriptBatch == 50      \* videos_without_transcripts[:50]
SummaryBatch == 30         \* videos_without_summaries[:30]
Interval == 30             \* schedule.every(30).minutes
SleepMinutes == 1          \* time.sleep(60)
CooldownMinutes == 5       \* time.sleep(300)
MaxRetries == 3            \* TelegramQueue.max_retries, default=3
DeliveryBatch == 50        \* get_pending_telegram_messages(limit=50)

Procs == {"scheduler", "manual"}

\* Optional values: None, or Some(x).
None == <<>>

Some(x) == <<x>>

\* Keyword arguments of YouTubeClient.__init__ as defined in youtube.py.
YouTubeClientParams == {"api_key"}

\* Keyword arguments check_and_process passes to YouTubeClient(...).
PipelineClientKwargs ==
    {"api_key", "proxy_list", "proxy_rate_limit", "proxy_max_retries", "proxy_retry_delay"}

\* Python's call of a constructor: an unexpected keyword argument raises TypeError.
BadKwargs(kwargs, params) == kwargs \ params

YouTubeClientInit(kwargs, params) ==
    IF BadKwargs(kwargs, params) = {} THEN "ok" ELSE "TypeError"

\* External video IDs the Metadata Client can report.
UpstreamIds == {"a", "x"}

\* External video IDs upstream in a behaviour about discovery.
IngestIds == {"a", "b", "c", "x"}

\* users rows: telegram_enabled, telegram_chat_id, followed youtube_channels.
Users ==
    [u1 |-> [telegram_enabled |-> TRUE,  telegram_chat_id |-> Some("100"), youtube_channels |-> {1, 2}],
     u2 |-> [telegram_enabled |-> TRUE,  telegram_chat_id |-> Some(""),    youtube_channels |-> {1}],
     u3 |-> [telegram_enabled |-> TRUE,  telegram_chat_id |-> Some("300"), youtube_channels |-> {1}],
     u4 |-> [telegram_enabled |-> FALSE, telegram_chat_id |-> Some("400"), youtube_channels |-> {1}],
     u5 |-> [telegram_enabled |-> TRUE,  telegram_chat_id |-> None,       youtube_channels |-> {1}]]

UserRows == <<"u1", "u2", "u3", "u4", "u5">>

VARIABLES
    ytParams,          \* parameters the installed YouTubeClient.__init__ accepts
    overlap,           \* TRUE when a run may start while another cycle is running
    upstream,          \* external video IDs the Metadata Client can report
    max_videos_per_check,  \* config.max_videos_per_check
    clock_limit,           \* last reading of datetime.utcnow() in the behaviour
    metadata_client,       \* outcomes of the requests in YouTubeClient.get_recent_videos
    transcript_client,     \* answers YouTubeClient.get_transcript can give
    summarization_client,  \* outcomes Summarizer.summarize can have
    rejected,              \* videos for which Summarizer.summarize raises whenever it is called
    loop,              \* the activation of run_scheduler
    worker,            \* the activation of TelegramBotService._process_outgoing_messages
    now,               \* datetime.utcnow(), in clock ticks
    faults,            \* store operations that may still raise
    cycles,            \* invocations of check_and_process that may still start
    youtube_channels,  \* youtube_channels table: the row ids, in the order of the table
    last_checked,      \* youtube_channels.last_checked, by row
    videos,            \* videos table
    transcripts,       \* transcripts table
    summaries,         \* summaries table
    telegram_queue,    \* telegram_queue table
    run_history,       \* run_history table
    frame,             \* one activation of check_and_process per caller
    fetch_failures     \* history: cycles in which the transcript fetch of a video failed

storeVars == <<youtube_channels, last_checked, videos, transcripts, summaries, telegram_queue, run_history>>
setupVars ==
    <<ytParams, overlap, upstream, max_videos_per_check, clock_limit, metadata_client, transcript_client,
      summarization_client, rejected>>
envVars == <<setupVars, now, faults, cycles>>
vars == <<envVars, loop, worker, storeVars, frame, fetch_failures>>

\* ---------------------------------------------------------------- helpers
Min(a, b) == IF a < b THEN a ELSE b

Rows(table) == [i \in 1..Len(table) |-> i]

Range(s) == {s[i] : i \in DOMAIN s}

\* Faulty variant: the list without its slice.
TakeAll(s, n) == s

\* s[:n]
Take(s, n) == SubSeq(s, 1, Min(n, Len(s)))

\* int(x): truncation towards zero.
IntTrunc(n, d) == IF n >= 0 THEN n \div d ELSE -((-n) \div d)

\* Sequences over S of length at most n.
SeqUpTo(S, n) == UNION {[1..k -> S] : k \in 0..n}

\* Python truthiness of a telegram_chat_id (None and "" are falsy).
Truthy(chat_id) == chat_id # None /\ chat_id # Some("")

\* ----------------------------------------------------------- store queries
\* Video.transcript.has()
HasTranscript(v) == \E i \in DOMAIN transcripts : transcripts[i].video_id = v

\* Video.summary.has()
HasSummary(v) == \E i \in DOMAIN summaries : summaries[i].video_id = v

\* History: the external ID is that of a stored video.
Stored(id) == id \in {videos[i].video_id : i \in DOMAIN videos}

\* Faulty variant: the query for an existing row finds nothing.
NeverExisting(video_id) == FALSE

\* session.query(Video).filter_by(video_id=video_id).first()
ExistingVideo(video_id) == \E i \in DOMAIN videos : videos[i].video_id = video_id

\* Faulty variant: videos.video_id without its UNIQUE constraint.
NoUniqueConstraint(video_id) == FALSE

\* UNIQUE constraint of videos.video_id, checked when the INSERT is committed.
UniqueVideoViolated(video_id) == ExistingVideo(video_id)

\* Faulty variant: transcripts.video_id without its UNIQUE constraint.
NoUniqueTranscript(v) == FALSE

\* UNIQUE constraint of transcripts.video_id.
UniqueTranscriptViolated(v) == HasTranscript(v)

\* UNIQUE constraint of summaries.video_id.
UniqueSummaryViolated(v) == HasSummary(v)

\* Video(video_id=..., youtube_channel_id=...), failed_attempts default 0.
NewVideo(video_id, channel) ==
    [video_id |-> video_id, youtube_channel_id |-> channel, failed_attempts |-> 0]

\* Faulty variant: the cap compared with <= instead of <.
get_videos_without_transcripts_upto_cap ==
    SelectSeq(Rows(videos),
              LAMBDA v : ~HasTranscript(v) /\ videos[v].failed_attempts <= MaxFailedAttempts)

get_videos_without_transcripts ==
    SelectSeq(Rows(videos),
              LAMBDA v : ~HasTranscript(v) /\ videos[v].failed_attempts < MaxFailedAttempts)

\* Faulty variant: the filter on the missing summary left out.
get_videos_with_transcripts == SelectSeq(Rows(videos), LAMBDA v : HasTranscript(v))

get_videos_without_summaries ==
    SelectSeq(Rows(videos), LAMBDA v : HasTranscript(v) /\ ~HasSummary(v))

\* Faulty variant: the filter on telegram_enabled left out.
get_followers_with_chat_id(channel) ==
    SelectSeq(UserRows,
              LAMBDA u : /\ Users[u].telegram_chat_id # None
                         /\ channel \in Users[u].youtube_channels)

get_users_for_telegram_notification(channel) ==
    SelectSeq(UserRows,
              LAMBDA u : /\ Users[u].telegram_enabled
                         /\ Users[u].telegram_chat_id # None
                         /\ channel \in Users[u].youtube_channels)

\* Faulty variant: the counter raised by two.
IncrementedTwice(old) == old + 2

\* video.failed_attempts = (video.failed_attempts or 0) + 1
IncrementedAttempts(old) == old + 1

\* TelegramQueue(chat_id=..., message=..., status="pending", retry_count=0);
\* the message carries the video's row id in its summary link.
NewQueueItem(chat_id, v) ==
    [chat_id |-> chat_id, message |-> v, status |-> "pending", retry_count |-> 0,
     max_retries |-> MaxRetries]

\* RunHistory.set_errors / json.dumps
JsonDumps(list) == [json |-> list]

\* json.loads
JsonLoads(text) == text.json

\* RunHistory.get_errors
get_errors(row) == IF row.errors # None THEN JsonLoads(row.errors[1]) ELSE <<>>

\* Faulty variant: success left at the column's default, True.
RunHistoryRowDefaultSuccess(videos_found, videos_processed, errors, success, duration_seconds) ==
    [videos_found |-> videos_found,
     videos_processed |-> videos_processed,
     errors |-> IF errors # None /\ errors[1] # <<>> THEN Some(JsonDumps(errors[1])) ELSE None,
     success |-> TRUE,
     duration_seconds |-> duration_seconds]

\* The row add_run_history stores: set_errors only when errors is truthy
\* (neither None nor the empty list).
RunHistoryRow(videos_found, videos_processed, errors, success, duration_seconds) ==
    [videos_found |-> videos_found,
     videos_processed |-> videos_processed,
     errors |-> IF errors # None /\ errors[1] # <<>> THEN Some(JsonDumps(errors[1])) ELSE None,
     success |-> success,
     duration_seconds |-> duration_seconds]

\* --------------------------------------------------------- check_and_process
Idle == {"idle", "returned", "raised"}

NoResult == [videos_found |-> 0, videos_processed |-> 0, errors |-> <<>>, duration |-> 0]

\* History: the sizes of the tables, and the videos that await a summary.
TableSizes ==
    [videos |-> Len(videos), summaries |-> Len(summaries),
     telegram_queue |-> Len(telegram_queue), run_history |-> Len(run_history),
     backlog |-> Len(get_videos_without_summaries)]

NoTables ==
    [videos |-> 0, summaries |-> 0, telegram_queue |-> 0, run_history |-> 0, backlog |-> 0]

IdleFrame ==
    [pc |-> "idle", start_time |-> 0, errors |-> <<>>, videos_found |-> 0,
     videos_processed |-> 0, channels |-> <<>>, new_videos |-> <<>>, selection |-> <<>>,
     users_to_notify |-> <<>>, branch |-> "else", read_attempts |-> 0, result |-> NoResult,
     appended |-> 0, history_row |-> 0, summarized |-> {}, notified |-> {},
     notify_failed |-> {}, enqueue_failed |-> {}, fetch_failed |-> {}, inserted |-> {},
     transcript_calls |-> 0, summarize_calls |-> 0, fresh |-> FALSE,
     before |-> NoTables, queried |-> <<>>,
     transport_failed |-> {}, texts |-> {}]

\* Faulty variant: the top-level handler starts the counts again.
FatalResets(f) ==
    [f EXCEPT !.errors = Append(@, <<"Fatal error in check_and_process", 0>>),
              !.videos_found = 0, !.videos_processed = 0, !.pc = "record"]

\* Faulty variant: the top-level handler returns at once, without the run history.
FatalReturns(f) ==
    [f EXCEPT !.errors = Append(@, <<"Fatal error in check_and_process", 0>>),
              !.pc = "returned"]

\* except Exception as e (line 193): one fatal error string, then the run history.
Fatal(f) == [f EXCEPT !.errors = Append(@, <<"Fatal error in check_and_process", 0>>),
                      !.pc = "record"]

\* End of one pass of "for channel in channels".
AfterChannel(f) ==
    [f EXCEPT !.channels = Tail(@), !.new_videos = <<>>,
              !.pc = IF Tail(f.channels) = <<>> THEN "select_transcripts" ELSE "channel"]

\* except Exception as e (line 86): a channel-scoped error string.
ChannelError(f) ==
    AfterChannel([f EXCEPT !.errors = Append(@, <<"Error checking channel", Head(f.channels)>>)])

\* Faulty variant: every answered video is counted.
CountEvery(videos_found, result) == videos_found + 1

\* lines 78-79: "if result: videos_found += 1"; add_video answers None for an
\* external ID that is already stored.
CountFound(videos_found, result) ==
    IF result # None THEN videos_found + 1 ELSE videos_found

\* End of one pass of "for video_data in videos".
AfterVideoData(f) ==
    [f EXCEPT !.new_videos = Tail(@),
              !.pc = IF Tail(f.new_videos) = <<>> THEN "touch" ELSE "add_video"]

\* Faulty variant: the cycle ends after stage 2.
AfterTranscriptEnds(f) ==
    [f EXCEPT !.selection = Tail(@),
              !.pc = IF Tail(f.selection) = <<>> THEN "record" ELSE "transcript"]

\* End of one pass of "for video in videos_without_transcripts[:50]".
AfterTranscript(f) ==
    [f EXCEPT !.selection = Tail(@),
              !.pc = IF Tail(f.selection) = <<>> THEN "select_summaries" ELSE "transcript"]

\* End of one pass of "for video in videos_without_summaries[:30]".
AfterSummary(f) ==
    [f EXCEPT !.selection = Tail(@), !.users_to_notify = <<>>,
              !.pc = IF Tail(f.selection) = <<>> THEN "record" ELSE "summarize"]

\* except Exception as e (line 114): error string, then the increment of line 119.
TranscriptError(f) ==
    [f EXCEPT !.errors = Append(@, <<"Error fetching transcript for", Head(f.selection)>>),
              !.branch = "except", !.pc = "increment_read"]

\* A failure inside increment_video_failed_attempts: in the else branch (line 110)
\* it is caught by line 114, in the handler (line 119) it escapes to line 193.
IncrementFailed(f) == IF f.branch = "else" THEN TranscriptError(f) ELSE Fatal(f)

\* Faulty variant: the failed video is counted as processed.
SummaryErrorCounted(f) ==
    AfterSummary([f EXCEPT !.errors = Append(@, <<"Error summarizing", Head(f.selection)>>),
                           !.videos_processed = @ + 1])

\* except Exception as e (line 188)
SummaryError(f) ==
    AfterSummary([f EXCEPT !.errors = Append(@, <<"Error summarizing", Head(f.selection)>>)])

\* Faulty variant: a failed notification ends the cycle.
NotifyAborts(f) == [f EXCEPT !.pc = "record"]

\* except Exception as e (line 185): logged only.
NotifyFailed(f) == AfterSummary(f)

\* History: one more call of the Transcript Client or the Summarization Client.
Called(f, client) ==
    IF client = "transcript" THEN [f EXCEPT !.transcript_calls = @ + 1]
                             ELSE [f EXCEPT !.summarize_calls = @ + 1]

\* run_scheduler has not been called.
NoLoop == [pc |-> "off"]

\* The delivery worker is not running.
NoWorker == [pc |-> "off"]

Running(p) == frame[p].pc \notin Idle

StoreFault == faults > 0

Step(p, f) == frame' = [frame EXCEPT ![p] = f]

\* lines 33-36: the locals at the start of a cycle; the history notes the runs
\* recorded before it and the videos that then await a summary.
Started ==
    [IdleFrame EXCEPT !.pc = "clients", !.start_time = now,
                      !.before = TableSizes]

StartCycle(p) ==
    /\ frame[p].pc = "idle"
    /\ cycles > 0
    /\ overlap \/ (p = "scheduler" /\ \A q \in Procs : frame[q].pc = "idle")
    /\ cycles' = cycles - 1
    /\ Step(p, Started)
    /\ UNCHANGED <<setupVars, loop, worker, now, faults, storeVars, fetch_failures>>

\* lines 40-51
ConstructClients(p) ==
    /\ frame[p].pc = "clients"
    /\ Step(p, IF YouTubeClientInit(PipelineClientKwargs, ytParams) = "ok"
               THEN [frame[p] EXCEPT !.pc = "get_channels"]
               ELSE Fatal(frame[p]))
    /\ UNCHANGED <<envVars, loop, worker, storeVars, fetch_failures>>

\* line 55
GetAllChannels(p) ==
    /\ frame[p].pc = "get_channels"
    /\ \E raised \in {FALSE} \cup {x \in {TRUE} : StoreFault} :
         IF raised
         THEN /\ faults' = faults - 1
              /\ Step(p, Fatal(frame[p]))
         ELSE /\ faults' = faults
              /\ Step(p, [frame[p] EXCEPT !.channels = youtube_channels,
                             !.pc = IF youtube_channels = <<>> THEN "select_transcripts"
                                                               ELSE "channel"])
    /\ UNCHANGED <<setupVars, loop, worker, now, cycles, storeVars, fetch_failures>>

\* The caller has the result (or the exception) of check_and_process.
Return(p) ==
    /\ frame[p].pc \in {"returned", "raised"}
    /\ Step(p, IdleFrame)
    /\ UNCHANGED <<envVars, loop, worker, storeVars, fetch_failures>>

\* datetime.utcnow(): the clock does not run backwards.
ClockReadings == now..clock_limit

\* lines 62-66; YouTubeClient.get_recent_videos answers [] on an HttpError and
\* lets every other exception out.
GetRecentVideos(p) ==
    /\ frame[p].pc = "channel"
    /\ \E answer \in metadata_client :
       \E items \in IF answer = "videos" THEN SeqUpTo(upstream, max_videos_per_check) ELSE {<<>>} :
         LET g == [frame[p] EXCEPT !.queried = Append(@, Head(frame[p].channels))]
             f == IF answer = "videos"
                    THEN [g EXCEPT !.fresh = @ \/ \E id \in Range(items) : ~Stored(id)]
                    ELSE [g EXCEPT !.fetch_failed = @ \cup {Head(frame[p].channels)}]
         IN Step(p, IF answer = "error"
                    THEN ChannelError(f)
                    ELSE [f EXCEPT !.new_videos = items,
                             !.pc = IF items = <<>> THEN "touch" ELSE "add_video"])
    /\ UNCHANGED <<envVars, loop, worker, storeVars, fetch_failures>>

\* add_video, lines 534-536: the query for an existing row.
AddVideoQuery(p) ==
    /\ frame[p].pc = "add_video"
    /\ \E raised \in {FALSE} \cup {x \in {TRUE} : StoreFault} :
         IF raised
         THEN /\ faults' = faults - 1
              /\ Step(p, ChannelError(frame[p]))
         ELSE /\ faults' = faults
              /\ Step(p, IF ExistingVideo(Head(frame[p].new_videos))
                         THEN AfterVideoData([frame[p] EXCEPT
                                                !.videos_found = CountFound(@, None)])
                         ELSE [frame[p] EXCEPT !.pc = "insert_video"])
    /\ UNCHANGED <<setupVars, loop, worker, now, cycles, storeVars, fetch_failures>>

\* add_video, lines 538-549: the INSERT and its commit; lines 79-80.
AddVideoCommit(p) ==
    /\ frame[p].pc = "insert_video"
    /\ LET video_id == Head(frame[p].new_videos)
           channel == Head(frame[p].channels)
       IN \E raised \in {FALSE} \cup {x \in {TRUE} : StoreFault} :
            IF raised \/ UniqueVideoViolated(video_id)
            THEN /\ faults' = IF raised THEN faults - 1 ELSE faults
                 /\ Step(p, ChannelError(frame[p]))
                 /\ UNCHANGED <<videos, fetch_failures>>
            ELSE /\ faults' = faults
                 /\ videos' = Append(videos, NewVideo(video_id, channel))
                 /\ fetch_failures' = Append(fetch_failures, 0)
                 /\ Step(p, AfterVideoData([frame[p] EXCEPT
                                               !.videos_found = CountFound(@, Some(Len(videos) + 1)),
                                               !.inserted = @ \cup {Len(videos) + 1}]))
    /\ UNCHANGED <<setupVars, loop, worker, now, cycles, youtube_channels, last_checked, transcripts, summaries,
                   telegram_queue, run_history>>

\* line 84, update_channel_check_time
UpdateChannelCheckTime(p) ==
    /\ frame[p].pc = "touch"
    /\ \E raised \in {FALSE} \cup {x \in {TRUE} : StoreFault} :
         IF raised
         THEN /\ faults' = faults - 1
              /\ Step(p, ChannelError(frame[p]))
              /\ UNCHANGED last_checked
         ELSE /\ faults' = faults
              /\ last_checked' = [last_checked EXCEPT ![Head(frame[p].channels)] = Some(now)]
              /\ Step(p, AfterChannel(frame[p]))
    /\ UNCHANGED <<setupVars, loop, worker, now, cycles, youtube_channels, videos, transcripts, summaries,
                   telegram_queue, run_history, fetch_failures>>

\* line 93 and the slice of line 95
GetVideosWithoutTranscripts(p) ==
    /\ frame[p].pc = "select_transcripts"
    /\ \E raised \in {FALSE} \cup {x \in {TRUE} : StoreFault} :
         IF raised
         THEN /\ faults' = faults - 1
              /\ Step(p, Fatal(frame[p]))
         ELSE /\ faults' = faults
              /\ LET chosen == Take(get_videos_without_transcripts, TranscriptBatch)
                 IN Step(p, [frame[p] EXCEPT !.selection = chosen,
                                !.pc = IF chosen = <<>> THEN "select_summaries"
                                                        ELSE "transcript"])
    /\ UNCHANGED <<setupVars, loop, worker, now, cycles, storeVars, fetch_failures>>

\* An outcome of the transcript API other than a text or a definitive "no
\* transcript": a transport or unexpected error.
TransportError == <<"Exception", "transport">>

\* YouTubeClient.get_transcript (youtube.py:185-230): (text, language), or None
\* when no transcript is available and also when any other exception was raised.
get_transcript(outcome) == IF outcome = TransportError THEN None ELSE outcome

\* History: the fetch of the video ended with a transport error, or the client
\* returned a text (noted with its language).
Fetched(f, outcome) ==
    IF outcome = TransportError
    THEN [Called(f, "transcript") EXCEPT !.transport_failed = @ \cup {Head(f.selection)}]
    ELSE IF outcome = None
    THEN Called(f, "transcript")
    ELSE [Called(f, "transcript") EXCEPT
            !.texts = @ \cup {[video |-> Head(f.selection), language |-> outcome[1]]}]

\* Faulty variant: the language of the transcript is not stored.
NewTranscriptUnknown(v, transcript_data) == [video_id |-> v, language |-> "unknown"]

\* Transcript(video_id=..., transcript_text=..., language=...) of add_transcript.
NewTranscript(v, transcript_data) == [video_id |-> v, language |-> transcript_data[1]]

\* lines 99-108: YouTubeClient.get_transcript answers (text, language) or None and
\* never raises; add_transcript stores the text.
FetchTranscript(p) ==
    /\ frame[p].pc = "transcript"
    /\ LET v == Head(frame[p].selection)
       IN \E outcome \in transcript_client :
          \E raised \in {FALSE} \cup {x \in {TRUE} : StoreFault /\ get_transcript(outcome) # None} :
          LET transcript_data == get_transcript(outcome)
          IN
            IF transcript_data = None
            THEN /\ Step(p, [Fetched(frame[p], outcome) EXCEPT
                               !.errors = Append(@, <<"No transcript available for", v>>),
                               !.branch = "else", !.pc = "increment_read"])
                 /\ fetch_failures' = [fetch_failures EXCEPT ![v] = @ + 1]
                 /\ UNCHANGED <<faults, transcripts>>
            ELSE IF raised \/ UniqueTranscriptViolated(v)
            THEN /\ faults' = IF raised THEN faults - 1 ELSE faults
                 /\ Step(p, TranscriptError(Fetched(frame[p], outcome)))
                 /\ fetch_failures' = [fetch_failures EXCEPT ![v] = @ + 1]
                 /\ UNCHANGED transcripts
            ELSE /\ transcripts' = Append(transcripts, NewTranscript(v, transcript_data))
                 /\ Step(p, AfterTranscript([Fetched(frame[p], outcome) EXCEPT
                                                !.fresh = TRUE]))
                 /\ UNCHANGED <<faults, fetch_failures>>
    /\ UNCHANGED <<setupVars, loop, worker, now, cycles, youtube_channels, last_checked, videos, summaries,
                   telegram_queue, run_history>>

\* increment_video_failed_attempts, line 582: the row is read.
IncrementRead(p) ==
    /\ frame[p].pc = "increment_read"
    /\ \E raised \in {FALSE} \cup {x \in {TRUE} : StoreFault} :
         IF raised
         THEN /\ faults' = faults - 1
              /\ Step(p, IncrementFailed(frame[p]))
         ELSE /\ faults' = faults
              /\ Step(p, [frame[p] EXCEPT
                            !.read_attempts = videos[Head(frame[p].selection)].failed_attempts,
                            !.pc = "increment_write"])
    /\ UNCHANGED <<setupVars, loop, worker, now, cycles, storeVars, fetch_failures>>

\* increment_video_failed_attempts, lines 584-586: the new count is written.
IncrementWrite(p) ==
    /\ frame[p].pc = "increment_write"
    /\ \E raised \in {FALSE} \cup {x \in {TRUE} : StoreFault} :
         IF raised
         THEN /\ faults' = faults - 1
              /\ Step(p, IncrementFailed(frame[p]))
              /\ UNCHANGED videos
         ELSE /\ faults' = faults
              /\ videos' = [videos EXCEPT ![Head(frame[p].selection)].failed_attempts =
                                             IncrementedAttempts(frame[p].read_attempts)]
              /\ Step(p, AfterTranscript(frame[p]))
    /\ UNCHANGED <<setupVars, loop, worker, now, cycles, youtube_channels, last_checked, transcripts, summaries,
                   telegram_queue, run_history, fetch_failures>>

\* line 125 and the slice of line 127
GetVideosWithoutSummaries(p) ==
    /\ frame[p].pc = "select_summaries"
    /\ \E raised \in {FALSE} \cup {x \in {TRUE} : StoreFault} :
         IF raised
         THEN /\ faults' = faults - 1
              /\ Step(p, Fatal(frame[p]))
         ELSE /\ faults' = faults
              /\ LET chosen == Take(get_videos_without_summaries, SummaryBatch)
                 IN Step(p, [frame[p] EXCEPT !.selection = chosen,
                                !.pc = IF chosen = <<>> THEN "record" ELSE "summarize"])
    /\ UNCHANGED <<setupVars, loop, worker, now, cycles, storeVars, fetch_failures>>

\* lines 132-150: Summarizer.summarize raises on any failure; add_summary stores
\* the summary and videos_processed counts it.
Summarize(p) ==
    /\ frame[p].pc = "summarize"
    /\ LET v == Head(frame[p].selection)
       IN \E answer \in IF v \in rejected THEN {"error"} ELSE summarization_client :
          \E raised \in {FALSE} \cup {x \in {TRUE} : StoreFault /\ answer = "summary"} :
            IF answer = "error" \/ raised \/ UniqueSummaryViolated(v)
            THEN /\ faults' = IF raised THEN faults - 1 ELSE faults
                 /\ Step(p, SummaryError(Called(frame[p], "summarize")))
                 /\ UNCHANGED summaries
            ELSE /\ faults' = faults
                 /\ summaries' = Append(summaries, [video_id |-> v])
                 /\ Step(p, [Called(frame[p], "summarize") EXCEPT !.videos_processed = @ + 1,
                                !.summarized = @ \cup {v}, !.pc = "notify"])
    /\ UNCHANGED <<setupVars, loop, worker, now, cycles, youtube_channels, last_checked, videos, transcripts,
                   telegram_queue, run_history, fetch_failures>>

\* End of one pass of "for user in users_to_notify"; after the last one the
\* notifications of the video are complete.
AfterUser(f) ==
    IF Tail(f.users_to_notify) = <<>>
    THEN AfterSummary([f EXCEPT !.notified = @ \cup {Head(f.selection)}])
    ELSE [f EXCEPT !.users_to_notify = Tail(@)]

\* lines 155-157
GetUsersForNotification(p) ==
    /\ frame[p].pc = "notify"
    /\ LET v == Head(frame[p].selection)
           users == get_users_for_telegram_notification(videos[v].youtube_channel_id)
       IN \E raised \in {FALSE} \cup {x \in {TRUE} : StoreFault} :
            IF raised
            THEN /\ faults' = faults - 1
                 /\ Step(p, NotifyFailed([frame[p] EXCEPT !.notify_failed = @ \cup {v}]))
            ELSE /\ faults' = faults
                 /\ Step(p, IF users = <<>>
                            THEN AfterSummary([frame[p] EXCEPT !.notified = @ \cup {v}])
                            ELSE [frame[p] EXCEPT !.users_to_notify = users, !.pc = "enqueue"])
    /\ UNCHANGED <<setupVars, loop, worker, now, cycles, storeVars, fetch_failures>>

\* lines 162-178: one pass of the loop over users_to_notify.
Enqueue(p) ==
    /\ frame[p].pc = "enqueue"
    /\ LET v == Head(frame[p].selection)
           user == Head(frame[p].users_to_notify)
           chat_id == Users[user].telegram_chat_id
       IN \E raised \in {FALSE} \cup {x \in {TRUE} : StoreFault /\ Truthy(chat_id)} :
            IF ~Truthy(chat_id)
            THEN /\ Step(p, AfterUser(frame[p]))
                 /\ UNCHANGED <<faults, telegram_queue>>
            ELSE IF raised
            THEN /\ faults' = faults - 1
                 /\ Step(p, NotifyFailed([frame[p] EXCEPT
                                            !.notify_failed = @ \cup {v},
                                            !.enqueue_failed = @ \cup {<<v, user>>}]))
                 /\ UNCHANGED telegram_queue
            ELSE /\ faults' = faults
                 /\ telegram_queue' = Append(telegram_queue, NewQueueItem(chat_id[1], v))
                 /\ Step(p, AfterUser(frame[p]))
    /\ UNCHANGED <<setupVars, loop, worker, now, cycles, youtube_channels, last_checked, videos, transcripts,
                   summaries, run_history, fetch_failures>>

\* lines 199-219: add_run_history is called outside every try block.
AddRunHistory(p) ==
    /\ frame[p].pc = "record"
    /\ \E end_time \in ClockReadings :
       \E raised \in {FALSE} \cup {x \in {TRUE} : StoreFault} :
         LET f == frame[p]
             duration == IntTrunc(end_time - f.start_time, TicksPerSecond)
         IN /\ now' = end_time
            /\ IF raised
               THEN /\ faults' = faults - 1
                    /\ Step(p, [f EXCEPT !.pc = "raised"])
                    /\ UNCHANGED run_history
               ELSE /\ faults' = faults
                    /\ run_history' = Append(run_history,
                           RunHistoryRow(f.videos_found, f.videos_processed,
                                         IF f.errors # <<>> THEN Some(f.errors) ELSE None,
                                         Len(f.errors) = 0, duration))
                    /\ Step(p, [f EXCEPT !.pc = "returned",
                                  !.appended = @ + 1,
                                  !.history_row = Len(run_history) + 1,
                                  !.result = [videos_found |-> f.videos_found,
                                              videos_processed |-> f.videos_processed,
                                              errors |-> f.errors,
                                              duration |-> duration]])
    /\ UNCHANGED <<setupVars, loop, worker, cycles, youtube_channels, last_checked, videos, transcripts,
                   summaries, telegram_queue, fetch_failures>>

\* ------------------------------------------------------------- run_scheduler
\* The job scheduled by schedule.every(30).minutes.do(...): first due one
\* interval after it was scheduled.
ScheduledLoop ==
    [pc |-> "startup", time |-> 0, next_run |-> Interval, starts |-> <<>>, raised |-> 0,
     cause |-> "none"]

\* Faulty variant: every job is due at every tick check.
AlwaysDue(time, next_run) == TRUE

\* schedule.run_pending: a job is due when its next_run has come.
should_run(time, next_run) == time >= next_run

\* The scheduler's clock after a cycle that took nondeterministically long.
AfterJob == {t \in loop.time..(loop.time + JobMinutes) : t <= MaxMinutes}

\* check_and_process(db, config) called by run_scheduler.
StartJob(kind) ==
    /\ cycles > 0
    /\ cycles' = cycles - 1
    /\ Step("scheduler", Started)
    /\ loop' = [loop EXCEPT !.pc = kind, !.starts = Append(@, [kind |-> kind, time |-> loop.time])]

\* lines 238-241: the query for pending work and the cycle at startup, both
\* outside the try block of the loop.
StartupCheck ==
    /\ loop.pc = "startup"
    /\ \E raised \in {FALSE} \cup {x \in {TRUE} : StoreFault} :
         IF raised
         THEN /\ faults' = faults - 1
              /\ loop' = [loop EXCEPT !.pc = "crashed", !.cause = "startup query"]
              /\ UNCHANGED <<cycles, frame>>
         ELSE /\ faults' = faults
              /\ IF get_videos_without_summaries # <<>>
                 THEN StartJob("startup_job")
                 ELSE /\ loop' = [loop EXCEPT !.pc = "run_pending"]
                      /\ UNCHANGED <<cycles, frame>>
    /\ UNCHANGED <<setupVars, now, worker, storeVars, fetch_failures>>

\* line 241 returns, or raises out of run_scheduler.
StartupDone ==
    /\ loop.pc = "startup_job"
    /\ frame["scheduler"].pc \in {"returned", "raised"}
    /\ \E t \in AfterJob :
         loop' = IF frame["scheduler"].pc = "returned"
                 THEN [loop EXCEPT !.pc = "run_pending", !.time = t]
                 ELSE [loop EXCEPT !.pc = "crashed", !.time = t, !.cause = "startup cycle",
                                   !.raised = @ + 1]
    /\ Step("scheduler", IdleFrame)
    /\ UNCHANGED <<envVars, worker, storeVars, fetch_failures>>

\* line 246: schedule.run_pending() starts the job when it is due.
RunPending ==
    /\ loop.pc = "run_pending"
    /\ IF should_run(loop.time, loop.next_run)
       THEN StartJob("tick_job")
       ELSE /\ loop' = [loop EXCEPT !.pc = "sleep"]
            /\ UNCHANGED <<cycles, frame>>
    /\ UNCHANGED <<setupVars, now, faults, worker, storeVars, fetch_failures>>

\* The job returns and is scheduled again one interval later; or it raises,
\* run_pending lets the exception out and line 251 catches it.
JobDone ==
    /\ loop.pc = "tick_job"
    /\ frame["scheduler"].pc \in {"returned", "raised"}
    /\ \E t \in AfterJob :
         loop' = IF frame["scheduler"].pc = "returned"
                 THEN [loop EXCEPT !.pc = "sleep", !.time = t, !.next_run = t + Interval]
                 ELSE [loop EXCEPT !.pc = "cooldown", !.time = t, !.raised = @ + 1]
    /\ Step("scheduler", IdleFrame)
    /\ UNCHANGED <<envVars, worker, storeVars, fetch_failures>>

\* line 247: time.sleep(60)
Sleep ==
    /\ loop.pc = "sleep"
    /\ loop.time + SleepMinutes <= MaxMinutes
    /\ loop' = [loop EXCEPT !.pc = "run_pending", !.time = @ + SleepMinutes]
    /\ UNCHANGED <<envVars, worker, storeVars, frame, fetch_failures>>

\* lines 251-253: the error is logged, time.sleep(300), and the loop goes on.
Cooldown ==
    /\ loop.pc = "cooldown"
    /\ loop.time + CooldownMinutes <= MaxMinutes
    /\ loop' = [loop EXCEPT !.pc = "run_pending", !.time = @ + CooldownMinutes]
    /\ UNCHANGED <<envVars, worker, storeVars, frame, fetch_failures>>

\* The shutdown signal (SIGINT): KeyboardInterrupt is raised where the main
\* thread is.  It is no Exception, so no handler of check_and_process catches
\* it: a cycle in progress is left at once, line 248 (or cli.cmd_schedule) ends
\* the loop.
Interrupt ==
    /\ loop.pc \in {"startup", "startup_job", "run_pending", "tick_job", "sleep", "cooldown"}
    /\ loop' = [loop EXCEPT !.pc = "stopped"]
    /\ Step("scheduler", IdleFrame)
    /\ UNCHANGED <<envVars, worker, storeVars, fetch_failures>>

\* ------------------------------------------- _process_outgoing_messages
\* The task has started: nothing fetched yet; the history logs every call of
\* send_message with its outcome.
WorkerStarted == [pc |-> "poll", batch |-> <<>>, log |-> <<>>]

\* Outcomes of application.bot.send_message: it returns, or raises.
DeliveryOutcomes == {"delivered", "error"}

\* get_pending_telegram_messages: status pending and retry_count < max_retries,
\* in the order of created_at, at most limit rows.
get_pending_telegram_messages(limit) ==
    Take(SelectSeq(Rows(telegram_queue),
                   LAMBDA i : /\ telegram_queue[i].status = "pending"
                              /\ telegram_queue[i].retry_count < telegram_queue[i].max_retries),
         limit)

\* Faulty variant: the row is marked failed one failure late.
StatusAfterFailureLate(status, retry_count, max_retries) ==
    IF retry_count > max_retries THEN "failed" ELSE status

\* mark_telegram_message_failed, lines 898-899
StatusAfterFailure(status, retry_count, max_retries) ==
    IF retry_count >= max_retries THEN "failed" ELSE status

\* End of one pass of "for msg in pending_messages".
AfterMessage(w) ==
    [w EXCEPT !.batch = Tail(@), !.pc = IF Tail(w.batch) = <<>> THEN "wait" ELSE "send"]

\* except Exception (line 160): logged, asyncio.sleep(5), and the loop goes on.
WorkerError(w) == [w EXCEPT !.batch = <<>>, !.pc = "poll"]

\* line 123
GetPendingMessages ==
    /\ worker.pc = "poll"
    /\ \E raised \in {FALSE} \cup {x \in {TRUE} : StoreFault} :
         IF raised
         THEN /\ faults' = faults - 1
              /\ worker' = WorkerError(worker)
         ELSE /\ faults' = faults
              /\ LET pending_messages == get_pending_telegram_messages(DeliveryBatch)
                 IN worker' = [worker EXCEPT !.batch = pending_messages,
                                 !.pc = IF pending_messages = <<>> THEN "wait" ELSE "send"]
    /\ UNCHANGED <<setupVars, loop, now, cycles, storeVars, frame, fetch_failures>>

\* lines 131-136: one call of send_message for the message at hand.
SendMessage ==
    /\ worker.pc = "send"
    /\ \E outcome \in DeliveryOutcomes :
         worker' = [worker EXCEPT
                      !.log = Append(@, [item |-> Head(worker.batch), outcome |-> outcome]),
                      !.pc = IF outcome = "delivered" THEN "mark_sent" ELSE "mark_failed"]
    /\ UNCHANGED <<envVars, loop, storeVars, frame, fetch_failures>>

\* line 139, mark_telegram_message_sent; when it raises, the handler of line 145
\* marks the message failed.
MarkSent ==
    /\ worker.pc = "mark_sent"
    /\ \E raised \in {FALSE} \cup {x \in {TRUE} : StoreFault} :
         IF raised
         THEN /\ faults' = faults - 1
              /\ worker' = [worker EXCEPT !.pc = "mark_failed"]
              /\ UNCHANGED telegram_queue
         ELSE /\ faults' = faults
              /\ telegram_queue' = [telegram_queue EXCEPT ![Head(worker.batch)].status = "sent"]
              /\ worker' = AfterMessage(worker)
    /\ UNCHANGED <<setupVars, loop, now, cycles, youtube_channels, last_checked, videos, transcripts,
                   summaries, run_history, frame, fetch_failures>>

\* line 148, mark_telegram_message_failed
MarkFailed ==
    /\ worker.pc = "mark_failed"
    /\ \E raised \in {FALSE} \cup {x \in {TRUE} : StoreFault} :
         IF raised
         THEN /\ faults' = faults - 1
              /\ worker' = WorkerError(worker)
              /\ UNCHANGED telegram_queue
         ELSE /\ faults' = faults
              /\ LET msg == Head(worker.batch)
                     retry_count == telegram_queue[msg].retry_count + 1
                 IN telegram_queue' =
                      [telegram_queue EXCEPT
                         ![msg].retry_count = retry_count,
                         ![msg].status = StatusAfterFailure(@, retry_count,
                                                            telegram_queue[msg].max_retries)]
              /\ worker' = AfterMessage(worker)
    /\ UNCHANGED <<setupVars, loop, now, cycles, youtube_channels, last_checked, videos, transcripts,
                   summaries, run_history, frame, fetch_failures>>

\* lines 151-158: the wait of 5 seconds ends, or the shutdown event is set.
WaitForShutdown ==
    /\ worker.pc = "wait"
    /\ \E pc \in {"poll", "stopped"} : worker' = [worker EXCEPT !.pc = pc]
    /\ UNCHANGED <<envVars, loop, storeVars, frame, fetch_failures>>

\* ------------------------------------------------------------ specification
\* The store at the start: two channels; video 1 has failed 9 fetches, video 2
\* has a transcript and no summary, video 3 has been given up.
InitStore ==
    /\ youtube_channels = <<1, 2>>
    /\ last_checked = [c \in {1, 2} |-> None]
    /\ videos = <<[video_id |-> "x", youtube_channel_id |-> 1, failed_attempts |-> 9],
                  [video_id |-> "y", youtube_channel_id |-> 1, failed_attempts |-> 0],
                  [video_id |-> "z", youtube_channel_id |-> 2, failed_attempts |-> 10]>>
    /\ transcripts = <<[video_id |-> 2, language |-> "en"]>>
    /\ summaries = <<>>
    /\ telegram_queue = <<>>
    /\ run_history = <<>>
    /\ fetch_failures = <<9, 0, 10>>

\* A smaller store: one channel and one video without a transcript.
InitSmallStore ==
    /\ youtube_channels = <<2>>
    /\ last_checked = [c \in {2} |-> None]
    /\ videos = <<[video_id |-> "x", youtube_channel_id |-> 2, failed_attempts |-> 8]>>
    /\ transcripts = <<>>
    /\ summaries = <<>>
    /\ telegram_queue = <<>>
    /\ run_history = <<>>
    /\ fetch_failures = <<8>>

\* No activation of check_and_process yet.
InitFrames ==
    /\ ytParams \in {YouTubeClientParams, PipelineClientKwargs}
    /\ now = 0
    /\ frame = [p \in Procs |-> IdleFrame]
    /\ worker = NoWorker

\* Clients that can succeed and fail.
InitClients ==
    /\ clock_limit = MaxClock
    /\ metadata_client = {"videos", "error"}
    /\ transcript_client = {None, Some("en")}
    /\ summarization_client = {"summary", "error"}
    /\ rejected = {}

\* The videos table of InitIngestStore.
InitialVideos == <<[video_id |-> "x", youtube_channel_id |-> 1, failed_attempts |-> 0]>>

\* A store for discovery: channel 3 has no known video; video "x" of channel 1
\* has a transcript and no summary.
InitIngestStore ==
    /\ youtube_channels = <<1, 3>>
    /\ last_checked = [c \in {1, 3} |-> None]
    /\ videos = InitialVideos
    /\ transcripts = <<[video_id |-> 1, language |-> "en"]>>
    /\ summaries = <<>>
    /\ telegram_queue = <<>>
    /\ run_history = <<>>
    /\ fetch_failures = <<0>>

\* A store with more videos than a stage takes in one cycle: the first
\* TranscriptBatch + ExtraVideos videos have no transcript, the next
\* SummaryBatch + ExtraVideos have a transcript and no summary.
InitBacklogStore ==
    /\ youtube_channels = <<2>>
    /\ last_checked = [c \in {2} |-> None]
    /\ videos = [i \in 1..(TranscriptBatch + SummaryBatch + 2 * ExtraVideos) |->
                    [video_id |-> ToString(i), youtube_channel_id |-> 2, failed_attempts |-> 0]]
    /\ transcripts = [i \in 1..(SummaryBatch + ExtraVideos) |->
                         [video_id |-> TranscriptBatch + ExtraVideos + i, language |-> "en"]]
    /\ summaries = <<>>
    /\ telegram_queue = <<>>
    /\ run_history = <<>>
    /\ fetch_failures = [i \in 1..(TranscriptBatch + SummaryBatch + 2 * ExtraVideos) |-> 0]

InitRun ==
    /\ InitFrames
    /\ InitClients
    /\ upstream = UpstreamIds
    /\ max_videos_per_check = MaxResults
    /\ loop = NoLoop

Init == InitStore /\ InitRun /\ overlap = FALSE /\ faults = 0 /\ cycles = MaxCycles

InitFaults ==
    InitStore /\ InitRun /\ overlap = FALSE /\ faults = MaxFaults /\ cycles = FaultCycles

\* One cycle of the scheduler and one manual run.
InitOverlap ==
    InitSmallStore /\ InitRun /\ overlap = TRUE /\ faults = 0 /\ cycles = Cardinality(Procs)

\* One cycle over a store with a channel without videos; no transcript is
\* available and every summarization succeeds.
InitIngest ==
    /\ InitIngestStore
    /\ InitFrames
    /\ clock_limit = MaxClock
    /\ metadata_client = {"videos", "HttpError", "error"}
    /\ transcript_client = {None, TransportError}
    /\ summarization_client = {"summary"}
    /\ rejected = {}
    /\ upstream = IngestIds
    /\ max_videos_per_check = IngestResults
    /\ loop = NoLoop
    /\ overlap = FALSE /\ faults = 0 /\ cycles = 1

\* One cycle over the store with a backlog; no transcript is available and
\* every summarization succeeds.
InitCaps ==
    /\ InitBacklogStore
    /\ InitFrames
    /\ clock_limit = MaxClock
    /\ metadata_client = {"videos", "error"}
    /\ transcript_client = {None}
    /\ summarization_client = {"summary"}
    /\ rejected = {}
    /\ upstream = UpstreamIds
    /\ max_videos_per_check = MaxResults
    /\ loop = NoLoop
    /\ overlap = FALSE /\ faults = 0 /\ cycles = 1

\* A store for repeated cycles: the first TranscriptBatch + ExtraVideos videos
\* have no transcript and are ProgressCycles - 1 failures short of being given
\* up, the next SummaryBatch + ExtraVideos have a transcript and no summary.
InitProgressStore ==
    /\ youtube_channels = <<2>>
    /\ last_checked = [c \in {2} |-> None]
    /\ videos = [i \in 1..(TranscriptBatch + SummaryBatch + 2 * ExtraVideos) |->
                    [video_id |-> ToString(i), youtube_channel_id |-> 2,
                     failed_attempts |-> IF i <= TranscriptBatch + ExtraVideos
                                         THEN MaxFailedAttempts - (ProgressCycles - 1) ELSE 0]]
    /\ transcripts = [i \in 1..(SummaryBatch + ExtraVideos) |->
                         [video_id |-> TranscriptBatch + ExtraVideos + i, language |-> "en"]]
    /\ summaries = <<>>
    /\ telegram_queue = <<>>
    /\ run_history = <<>>
    /\ fetch_failures = [i \in 1..(TranscriptBatch + SummaryBatch + 2 * ExtraVideos) |->
                            IF i <= TranscriptBatch + ExtraVideos
                            THEN MaxFailedAttempts - (ProgressCycles - 1) ELSE 0]

\* The first n videos that await a summary in InitProgressStore.
FirstOfBacklog(n) == (TranscriptBatch + ExtraVideos + 1)..(TranscriptBatch + ExtraVideos + n)

\* Cycles one after another over that store: no transcript is available, and
\* the Summarization Client fails whenever it is called for one of the first
\* SummaryBatch videos that await a summary, or for all of these but the last.
InitProgress ==
    /\ InitProgressStore
    /\ InitFrames
    /\ clock_limit = 0
    /\ metadata_client = {"videos"}
    /\ transcript_client = {None}
    /\ summarization_client = {"summary"}
    /\ rejected \in {FirstOfBacklog(SummaryBatch), FirstOfBacklog(SummaryBatch - 1)}
    /\ upstream = {"new"}
    /\ max_videos_per_check = MaxResults
    /\ loop = NoLoop
    /\ overlap = FALSE /\ faults = 0 /\ cycles = ProgressCycles

\* run_scheduler has scheduled its job; the only video, "x", has a transcript
\* and no summary, or has none.  The clients are deterministic but for the
\* answer of the Metadata Client; the cycle at startup and one cycle per
\* interval of the time may start.
InitScheduler ==
    /\ youtube_channels = <<2>>
    /\ last_checked = [c \in {2} |-> None]
    /\ videos = <<[video_id |-> "x", youtube_channel_id |-> 2, failed_attempts |-> 8]>>
    /\ transcripts \in {<<>>, <<[video_id |-> 1, language |-> "en"]>>}
    /\ summaries = <<>>
    /\ telegram_queue = <<>>
    /\ run_history = <<>>
    /\ fetch_failures = <<8>>
    /\ InitFrames
    /\ clock_limit = 0
    /\ metadata_client = {"videos"}
    /\ transcript_client = {None}
    /\ summarization_client = {"summary"}
    /\ rejected = {}
    /\ upstream = {"a"}
    /\ max_videos_per_check = MaxResults
    /\ loop = ScheduledLoop
    /\ overlap = FALSE /\ faults = MaxFaults /\ cycles = 1 + MaxMinutes \div Interval

Next ==
    \E p \in Procs :
         \/ StartCycle(p)
         \/ ConstructClients(p)
         \/ GetAllChannels(p)
         \/ GetRecentVideos(p)
         \/ AddVideoQuery(p)
         \/ AddVideoCommit(p)
         \/ UpdateChannelCheckTime(p)
         \/ GetVideosWithoutTranscripts(p)
         \/ FetchTranscript(p)
         \/ IncrementRead(p)
         \/ IncrementWrite(p)
         \/ GetVideosWithoutSummaries(p)
         \/ Summarize(p)
         \/ GetUsersForNotification(p)
         \/ Enqueue(p)
         \/ AddRunHistory(p)
         \/ Return(p)

\* Cycles one after another.
Spec == Init /\ [][Next]_vars

\* Cycles one after another, with store operations that raise.
SpecFaults == InitFaults /\ [][Next]_vars

\* A manual run may overlap the scheduler's cycle.
SpecOverlap == InitOverlap /\ [][Next]_vars

\* One cycle of discovery over a channel without videos.
SpecIngest == InitIngest /\ [][Next]_vars

\* The steps of check_and_process when run_scheduler has called it.
Job ==
    LET p == "scheduler"
    IN \/ ConstructClients(p)
       \/ GetAllChannels(p)
       \/ GetRecentVideos(p)
       \/ AddVideoQuery(p)
       \/ AddVideoCommit(p)
       \/ UpdateChannelCheckTime(p)
       \/ GetVideosWithoutTranscripts(p)
       \/ FetchTranscript(p)
       \/ IncrementRead(p)
       \/ IncrementWrite(p)
       \/ GetVideosWithoutSummaries(p)
       \/ Summarize(p)
       \/ GetUsersForNotification(p)
       \/ Enqueue(p)
       \/ AddRunHistory(p)

NextScheduler ==
    \/ StartupCheck
    \/ StartupDone
    \/ RunPending
    \/ JobDone
    \/ Sleep
    \/ Cooldown
    \/ Interrupt
    \/ Job

\* run_scheduler: the cycle at startup and the cycles of the loop.
SpecScheduler == InitScheduler /\ [][NextScheduler]_vars

\* One cycle over a store with more videos than the stages take.
SpecCaps == InitCaps /\ [][Next]_vars

\* One cycle over the store for discovery while the delivery worker runs: video
\* "x" is summarized and announced to the two subscribers of channel 1 that
\* have notifications enabled and a delivery address.
InitDelivery ==
    /\ InitIngestStore
    /\ ytParams \in {YouTubeClientParams, PipelineClientKwargs}
    /\ now = 0
    /\ frame = [p \in Procs |-> IdleFrame]
    /\ worker = WorkerStarted
    /\ clock_limit = 0
    /\ metadata_client = {"videos"}
    /\ transcript_client = {None}
    /\ summarization_client = {"summary"}
    /\ rejected = {}
    /\ upstream = {"a"}
    /\ max_videos_per_check = MaxResults
    /\ loop = NoLoop
    /\ overlap = FALSE /\ faults = 0 /\ cycles = 1

\* The steps of the delivery worker.
Deliver ==
    \/ GetPendingMessages
    \/ SendMessage
    \/ MarkSent
    \/ MarkFailed
    \/ WaitForShutdown

NextDelivery == Next \/ Deliver

\* check_and_process fills the queue, the delivery worker empties it.
SpecDelivery == InitDelivery /\ [][NextDelivery]_vars

\* Repeated cycles over a store with more videos than the stages take.
SpecProgress == InitProgress /\ [][Next]_vars

\* ------------------------------------------------------------------ claims
\* Subscribers of a channel with notifications enabled and a delivery address.
Eligible(channel) ==
    {u \in DOMAIN Users : /\ Users[u].telegram_enabled
                          /\ Truthy(Users[u].telegram_chat_id)
                          /\ channel \in Users[u].youtube_channels}

\* Queue items that announce video v.
ItemsFor(v) == {i \in DOMAIN telegram_queue : telegram_queue[i].message = v}

\* Summary rows of video v.
SummariesOf(v) == {i \in DOMAIN summaries : summaries[i].video_id = v}

HasError(f, prefix) == \E i \in DOMAIN f.errors : f.errors[i][1] = prefix

C2_NeverRaises == \A p \in Procs : frame[p].pc # "raised"

\* C3: the run_history row of a cycle has success = TRUE exactly when the error
\* list is empty, and its counts and error list are those returned to the caller.
C3_HistoryMatchesResult ==
    \A p \in Procs :
      frame[p].pc = "returned" =>
        LET row == run_history[frame[p].history_row]
            res == frame[p].result
        IN /\ row.success = (res.errors = <<>>)
           /\ row.videos_found = res.videos_found
           /\ row.videos_processed = res.videos_processed
           /\ get_errors(row) = res.errors
           /\ row.duration_seconds = res.duration

\* A cycle that found a video, summarized one and collected an error has returned.
C3_Witness ==
    \E p \in Procs :
      /\ frame[p].pc = "returned"
      /\ frame[p].result.errors # <<>>
      /\ frame[p].result.videos_found = 1
      /\ frame[p].result.videos_processed >= 1
      /\ ~run_history[frame[p].history_row].success

\* C4: no two videos rows have the same external video ID, also when two cycles
\* insert the same ID at the same time.
C4_OneVideoPerExternalId ==
    \A i, j \in DOMAIN videos : videos[i].video_id = videos[j].video_id => i = j

\* One cycle is about to insert an ID that the other cycle has inserted since
\* the first one looked for it.
C4_Witness ==
    \E p, q \in Procs :
      /\ p # q
      /\ frame[p].pc = "insert_video"
      /\ ExistingVideo(Head(frame[p].new_videos))
      /\ frame[q].videos_found = 1

\* C5: with cycles one after another, the Transcript Client is called only for a
\* video without a transcript and the Summarization Client only for a video
\* without a summary; a video has at most one summary, and notifications are
\* enqueued for a video only by the cycle that created its summary.
C5_Selected ==
    /\ \A p \in Procs :
         /\ frame[p].pc = "transcript" => ~HasTranscript(Head(frame[p].selection))
         /\ frame[p].pc = "summarize" => ~HasSummary(Head(frame[p].selection))
    /\ \A v \in DOMAIN videos : Cardinality(SummariesOf(v)) <= 1

C5_Step ==
    /\ Len(summaries') > Len(summaries) =>
         ~HasSummary(summaries'[Len(summaries')].video_id)
    /\ Len(telegram_queue') > Len(telegram_queue) =>
         \E p \in Procs :
           /\ frame[p].pc = "enqueue"
           /\ telegram_queue'[Len(telegram_queue')].message = Head(frame[p].selection)
           /\ Head(frame[p].selection) \in frame[p].summarized

C5_NoReprocessing == [](C5_Selected) /\ [][C5_Step]_vars

\* The second cycle has passed stage 3 without summarizing anything, while a
\* summary and its notifications of the first cycle are stored.
C5_Witness ==
    /\ cycles = 0
    /\ run_history # <<>>
    /\ summaries # <<>>
    /\ telegram_queue # <<>>
    /\ \E p \in Procs : frame[p].pc = "returned" /\ frame[p].summarized = {}
                        /\ ~HasError(frame[p], "Fatal error in check_and_process")

\* C6: when the summary of a video is stored and its notifications are complete
\* (no lookup and no enqueue failed), the video has exactly one summary, it is
\* counted once in videos_processed, and the queue holds exactly one pending item
\* with retry_count 0 for each eligible subscriber of its channel and no other
\* item for it.
C6_SummaryAndNotifications ==
    \A p \in Procs :
      /\ frame[p].videos_processed = Cardinality(frame[p].summarized)
      /\ \A v \in frame[p].notified :
           /\ v \in frame[p].summarized
           /\ Cardinality(SummariesOf(v)) = 1
           /\ Cardinality(ItemsFor(v)) = Cardinality(Eligible(videos[v].youtube_channel_id))
           /\ \A u \in Eligible(videos[v].youtube_channel_id) :
                \E i \in ItemsFor(v) :
                  /\ telegram_queue[i].chat_id = Users[u].telegram_chat_id[1]
                  /\ telegram_queue[i].status = "pending"
                  /\ telegram_queue[i].retry_count = 0

\* Video 2, of channel 1 with its two eligible subscribers, is summarized and
\* announced; another video of the cycle failed to be summarized.
C6_Witness ==
    \E p \in Procs :
      /\ 2 \in frame[p].notified
      /\ Cardinality(ItemsFor(2)) = 2
      /\ frame[p].videos_processed = 1
      /\ HasError(frame[p], "Error summarizing")

\* C7: when the enqueue for one subscriber of a video fails, every other eligible
\* subscriber of the video's channel has a queue item for it by the end of the
\* cycle.
C7_OthersStillEnqueued ==
    \A p \in Procs :
      frame[p].pc \in {"record", "returned", "raised"} =>
        \A pair \in frame[p].enqueue_failed :
          \A u \in Eligible(videos[pair[1]].youtube_channel_id) \ {pair[2]} :
            \E i \in ItemsFor(pair[1]) :
              telegram_queue[i].chat_id = Users[u].telegram_chat_id[1]

\* C8: when the subscriber lookup or an enqueue fails after the summary was
\* stored, the summary stays, the video stays counted, no error string is added
\* and the cycle moves to the next selected video.
C8_Kept ==
    \A p \in Procs :
      \A v \in frame[p].notify_failed :
        /\ Cardinality(SummariesOf(v)) = 1
        /\ v \in frame[p].summarized
        /\ frame[p].videos_processed = Cardinality(frame[p].summarized)

C8_Step ==
    \A p \in Procs :
      ~(frame'[p].notify_failed \subseteq frame[p].notify_failed) =>
        /\ frame[p].pc \in {"notify", "enqueue"}
        /\ frame'[p].notify_failed = frame[p].notify_failed \cup {Head(frame[p].selection)}
        /\ summaries' = summaries
        /\ frame'[p].videos_processed = frame[p].videos_processed
        /\ frame'[p].selection = Tail(frame[p].selection)
        /\ frame'[p].pc = IF frame'[p].selection = <<>> THEN "record" ELSE "summarize"

C8_NotificationFailureKeepsSummary == [](C8_Kept) /\ [][C8_Step]_vars

\* The notifications of one video failed and the cycle is at the next video.
C8_Witness ==
    \E p \in Procs :
      /\ frame[p].notify_failed # {}
      /\ frame[p].pc = "summarize"
      /\ frame[p].videos_processed = 1

\* C9: every video selected for a transcript fetch has no transcript and fewer
\* than 10 failed attempts, and no videos row is ever removed or renamed.
C9_Selected ==
    \A p \in Procs :
      frame[p].pc \in {"transcript", "increment_read", "increment_write"} =>
        \A i \in DOMAIN frame[p].selection :
          /\ ~HasTranscript(frame[p].selection[i])
          /\ videos[frame[p].selection[i]].failed_attempts < MaxFailedAttempts

C9_Step ==
    /\ Len(videos') >= Len(videos)
    /\ \A v \in DOMAIN videos : videos'[v].video_id = videos[v].video_id
    /\ \A p \in Procs :
         (frame[p].pc = "select_transcripts" /\ frame'[p].pc = "transcript") =>
           \A v \in DOMAIN videos :
             videos[v].failed_attempts >= MaxFailedAttempts =>
               v \notin Range(frame'[p].selection)

C9_GivenUpNotSelected == [](C9_Selected) /\ [][C9_Step]_vars

\* Video 1 failed its 10th fetch in the first cycle; the second cycle has
\* selected another video and not video 1.
C9_Witness ==
    /\ cycles = 0
    /\ Len(run_history) = 1
    /\ videos[1].failed_attempts = MaxFailedAttempts
    /\ fetch_failures[1] = MaxFailedAttempts
    /\ ~HasTranscript(1)
    /\ \E p \in Procs : frame[p].pc = "transcript" /\ 1 \notin Range(frame[p].selection)

\* The increment of video v's failed_attempts is under way.
Incrementing(v) ==
    \E p \in Procs : /\ frame[p].pc \in {"increment_read", "increment_write"}
                     /\ Head(frame[p].selection) = v

\* C10: with cycles one after another, failed_attempts of a video is the number
\* of cycles in which its transcript fetch failed, it stays within 0..10, and a
\* step never lowers it, raises it by more than 1, or raises it from 10.
C10_Counted ==
    \A v \in DOMAIN videos :
      /\ videos[v].failed_attempts \in 0..MaxFailedAttempts
      /\ ~Incrementing(v) => videos[v].failed_attempts = fetch_failures[v]
      /\ Incrementing(v) => videos[v].failed_attempts = fetch_failures[v] - 1

C10_Step ==
    \A v \in DOMAIN videos :
      /\ videos'[v].failed_attempts \in
           {videos[v].failed_attempts, videos[v].failed_attempts + 1}
      /\ videos[v].failed_attempts >= MaxFailedAttempts =>
           videos'[v].failed_attempts = videos[v].failed_attempts

C10_FailedAttempts == [](C10_Counted) /\ [][C10_Step]_vars

\* Video 1 has failed 10 fetches, and a video found by the first cycle has
\* failed one fetch in each of the two cycles.
C10_Witness ==
    /\ videos[1].failed_attempts = MaxFailedAttempts
    /\ \E v \in DOMAIN videos : v > 3 /\ videos[v].failed_attempts = 2
                                /\ fetch_failures[v] = 2

\* Error strings of activation f that are scoped to channel c.
ChannelErrors(f, c) ==
    {i \in DOMAIN f.errors : f.errors[i] = <<"Error checking channel", c>>}

\* C11: when fetching the videos of a channel fails (network error, quota,
\* not-found), the cycle's error list has exactly one message scoped to that
\* channel and the RunHistory record of the cycle has success = false.
C11_ChannelFailureRecorded ==
    \A p \in Procs : \A c \in frame[p].fetch_failed :
        /\ Cardinality(ChannelErrors(frame[p], c)) = 1
        /\ frame[p].pc = "returned" => ~run_history[frame[p].history_row].success

\* C12: at the end of a cycle videosFound is the number of Video rows the cycle
\* inserted; an external ID that is already stored adds no row and is not counted.
C12_FoundCountsInserted ==
    \A p \in Procs :
        frame[p].pc \in {"record", "returned"} =>
            /\ frame[p].videos_found = Cardinality(frame[p].inserted)
            /\ Len(videos) = Len(InitialVideos) + Cardinality(frame[p].inserted)
            /\ \A i, j \in DOMAIN videos : videos[i].video_id = videos[j].video_id => i = j
            /\ frame[p].pc = "returned" =>
                   /\ frame[p].result.videos_found = frame[p].videos_found
                   /\ run_history[frame[p].history_row].videos_found = frame[p].videos_found

\* The lookup of channel 3, which had no video, answered three distinct videos:
\* videosFound = 3, three new rows, last-checked updated.
C12_Witness ==
    \E p \in Procs :
        /\ frame[p].pc = "returned"
        /\ frame[p].result.videos_found = 3
        /\ Len(videos) = 4
        /\ \A i \in 2..4 : videos[i].youtube_channel_id = 3
        /\ last_checked[3] # None

\* Stage 1 of the activation f did nothing: no Video inserted and none counted,
\* no error for an ID that is already known.
NoOpStage1(f) ==
    /\ f.videos_found = 0
    /\ Len(videos) = f.before.videos
    /\ \A c \in Range(youtube_channels) : ChannelErrors(f, c) # {} => c \in f.fetch_failed

\* Stage 3 of the activation f did nothing: no Summary created, no notification
\* enqueued, none counted as processed.
NoOpStage3(f) ==
    /\ f.videos_processed = 0
    /\ Len(summaries) = f.before.summaries
    /\ Len(telegram_queue) = f.before.telegram_queue

\* A run that follows another one and got no new upstream data: every ID the
\* Metadata Client answered was stored already and the Transcript Client gave no
\* transcript.
SecondRun(f) ==
    /\ f.pc \in {"record", "returned"}
    /\ f.before.run_history > 0
    /\ ~f.fresh

C14_BatchCaps ==
    \A p \in Procs :
        /\ frame[p].transcript_calls <= TranscriptBatch
        /\ frame[p].summarize_calls <= SummaryBatch
        /\ Len(frame[p].selection) <= TranscriptBatch
        /\ frame[p].pc \in {"summarize", "notify", "enqueue"} =>
               Len(frame[p].selection) + frame[p].summarize_calls <= SummaryBatch + 1

\* A cycle called both clients as often as the caps allow and left eligible
\* videos of both stages behind.
C14_Witness ==
    \E p \in Procs :
        /\ frame[p].pc = "returned"
        /\ frame[p].transcript_calls = TranscriptBatch
        /\ frame[p].summarize_calls = SummaryBatch
        /\ \E v \in DOMAIN videos : ~HasTranscript(v) /\ videos[v].failed_attempts = 0
        /\ get_videos_without_summaries # <<>>

\* Error strings of activation f about the summarization of video v.
SummaryErrors(f, v) == {i \in DOMAIN f.errors : f.errors[i] = <<"Error summarizing", v>>}

\* A cycle has one error string for a video whose summarization failed, no
\* Summary and no notification for it, and has not counted it.
C15_Failed ==
    \A p \in Procs : \A v \in DOMAIN videos :
        SummaryErrors(frame[p], v) # {} =>
            /\ Cardinality(SummaryErrors(frame[p], v)) = 1
            /\ ~HasSummary(v)
            /\ ItemsFor(v) = {}
            /\ v \notin frame[p].summarized
            /\ frame[p].videos_processed = Cardinality(frame[p].summarized)

\* The step in which a summarization fails changes neither the summaries, the
\* queue nor videos_processed, and goes on to the next selected video.
C15_Step ==
    \A p \in Procs :
        Len(frame'[p].errors) > Len(frame[p].errors)
        /\ frame'[p].errors[Len(frame'[p].errors)][1] = "Error summarizing" =>
            /\ frame'[p].errors = Append(frame[p].errors,
                                         <<"Error summarizing", Head(frame[p].selection)>>)
            /\ summaries' = summaries
            /\ telegram_queue' = telegram_queue
            /\ frame'[p].videos_processed = frame[p].videos_processed
            /\ frame'[p].selection = Tail(frame[p].selection)
            /\ frame'[p].pc = IF frame'[p].selection = <<>> THEN "record" ELSE "summarize"

\* C15: when the summarization of a selected video fails, the cycle appends one
\* error string for it, persists no Summary, does not count it, enqueues nothing
\* for it, and continues with the next selected video.
C15_SummarizationFailure == [](C15_Failed) /\ [][C15_Step]_vars

\* The summarization of one video failed and the next selected video was
\* summarized in the same cycle.
C15_Witness ==
    \E p \in Procs : \E v, w \in DOMAIN videos :
        /\ frame[p].pc = "returned"
        /\ SummaryErrors(frame[p], v) # {}
        /\ w \in frame[p].summarized
        /\ v < w
        /\ frame[p].result.videos_processed = 1

\* The fatal error strings of activation f.
FatalErrors(f) ==
    {i \in DOMAIN f.errors : f.errors[i][1] = "Fatal error in check_and_process"}

\* A cycle with a fatal error has exactly one fatal string, the last of its
\* errors, and the counts of what it inserted and summarized before the fault;
\* its result and its RunHistory record carry these counts, with success = false.
C16_Recorded ==
    \A p \in Procs :
        LET f == frame[p]
        IN FatalErrors(f) # {} =>
            /\ FatalErrors(f) = {Len(f.errors)}
            /\ f.pc \in {"record", "returned", "raised"}
            /\ f.videos_found = Cardinality(f.inserted)
            /\ f.videos_processed = Cardinality(f.summarized)
            /\ f.pc = "returned" =>
                   /\ f.result.videos_found = f.videos_found
                   /\ f.result.videos_processed = f.videos_processed
                   /\ f.result.errors = f.errors
                   /\ run_history[f.history_row].videos_found = f.videos_found
                   /\ run_history[f.history_row].videos_processed = f.videos_processed
                   /\ ~run_history[f.history_row].success
                   /\ get_errors(run_history[f.history_row]) = f.errors

\* The step of the top-level handler keeps the counts and goes to the record of
\* the run; nothing of the cycle runs after it but add_run_history.
C16_Step ==
    \A p \in Procs :
        /\ FatalErrors(frame'[p]) # {} /\ FatalErrors(frame[p]) = {} =>
               /\ frame'[p].videos_found = frame[p].videos_found
               /\ frame'[p].videos_processed = frame[p].videos_processed
               /\ frame'[p].pc = "record"
        /\ FatalErrors(frame[p]) # {} /\ frame'[p] # frame[p] =>
               \/ frame[p].pc = "record" /\ frame'[p].pc \in {"returned", "raised"}
               \/ frame[p].pc \in {"returned", "raised"} /\ frame'[p] = IdleFrame

\* C16: an exception that escapes all stage boundaries gives exactly one fatal
\* error string; the counts accumulated before it are in the result and in the
\* RunHistory record, which has success = false.
C16_FatalKeepsCounts == [](C16_Recorded) /\ [][C16_Step]_vars

\* The query at the start of stage 2 failed after stage 1 had inserted a video.
C16_Witness ==
    \E p \in Procs :
        /\ frame[p].pc = "returned"
        /\ FatalErrors(frame[p]) # {}
        /\ frame[p].result.videos_found = 1
        /\ run_history[frame[p].history_row].videos_found = 1
        /\ frame[p].transcript_calls = 0

\* No store operation has raised so far.
NoFaultYet == faults = MaxFaults

\* At startup a cycle starts at once exactly when a video has a Transcript and
\* no Summary.
C17_Startup ==
    loop.pc = "startup" /\ loop'.pc \in {"startup_job", "run_pending"} =>
        /\ loop'.pc = "startup_job" <=>
               \E v \in DOMAIN videos : HasTranscript(v) /\ ~HasSummary(v)
        /\ loop'.pc = "startup_job" =>
               /\ frame'["scheduler"].pc = "clients"
               /\ loop'.starts = <<[kind |-> "startup_job", time |-> 0]>>
        /\ loop'.pc = "run_pending" => loop'.starts = <<>> /\ ~Running("scheduler")'

\* The cycles of the loop: none before one interval has passed since the start
\* of run_scheduler, at least one interval between two of them, and none left
\* waiting when it is due.
C17_Cadence ==
    NoFaultYet =>
        /\ \A i \in DOMAIN loop.starts :
             /\ loop.starts[i].kind = "startup_job" => i = 1 /\ loop.starts[i].time = 0
             /\ loop.starts[i].kind = "tick_job" =>
                    /\ loop.starts[i].time >= Interval
                    /\ i > 1 /\ loop.starts[i - 1].kind = "tick_job" =>
                           loop.starts[i].time >= loop.starts[i - 1].time + Interval
        /\ loop.pc = "sleep" =>
             IF \E i \in DOMAIN loop.starts : loop.starts[i].kind = "tick_job"
             THEN loop.time < loop.starts[Len(loop.starts)].time + JobMinutes + Interval
             ELSE loop.time < Interval
        /\ Running("scheduler") => loop.pc \in {"startup_job", "tick_job"}

C18_LoopSurvivesCycleFault == ~(loop.pc = "crashed" /\ loop.cause = "startup cycle")

\* C19: when the shutdown signal has stopped the loop, every cycle that was
\* started has its RunHistory record (or has raised): none was cut off.
C19_NoCycleCutOff ==
    loop.pc = "stopped" => Len(run_history) + loop.raised = Len(loop.starts)

\* When no increment of a video is under way, its failed_attempts counts every
\* failed transcript attempt that the cycles have recorded for it.
C20_Counted ==
    \A v \in DOMAIN videos :
        ~Incrementing(v) => videos[v].failed_attempts = fetch_failures[v]

\* No step lowers failed_attempts.
C20_Step ==
    \A v \in DOMAIN videos : videos'[v].failed_attempts >= videos[v].failed_attempts

\* C20: when two overlapping cycles both record a failed transcript attempt for
\* the same video, no increment is lost (failed_attempts ends 2 higher), and
\* failed_attempts never decreases.
C20_NoLostIncrement == [](C20_Counted) /\ [][C20_Step]_vars

\* C21: a cycle that has returned has queried the Metadata Client once for
\* every channel of the store, in the order of the table: the clients were
\* constructed and stage 1 was reached.
C21_EveryChannelQueried ==
    \A p \in Procs : frame[p].pc = "returned" => frame[p].queried = youtube_channels

\* The cycle leaves a channel whose video lookup returned: from add_video, or
\* from update_channel_check_time when that did not raise.
LeavesChannel(p) ==
    /\ frame[p].pc \in {"add_video", "insert_video", "touch"}
    /\ frame'[p].channels = Tail(frame[p].channels)
    /\ ~(frame[p].pc = "touch" /\ faults' # faults)

C22_Step ==
    \A p \in Procs : LeavesChannel(p) => last_checked'[Head(frame[p].channels)] # None

\* C22: when stage 1 leaves a channel whose video lookup returned, the channel's
\* last-checked timestamp is set, also when the insertion of one of the
\* returned videos failed (the only exception: the update itself raised).
C22_CheckTimeUpdated == [][C22_Step]_vars

\* C23: a video whose fetch ended with a transport or unexpected error of the
\* Transcript Client does not get the error string of the "unavailable" answer,
\* and when the cycle has returned its failed_attempts has been raised once for
\* that failure.
C23_DistinguishableOutcomes ==
    \A p \in Procs :
      /\ \A i \in DOMAIN frame[p].errors :
           frame[p].errors[i][1] = "No transcript available for"
             => frame[p].errors[i][2] \notin frame[p].transport_failed
      /\ frame[p].pc = "returned" =>
           \A v \in frame[p].transport_failed : videos[v].failed_attempts = fetch_failures[v]

\* C24: a cycle in which a notification enqueue failed returns a non-empty error
\* list and its run_history row has success = FALSE.
C24_EnqueueFailureRecorded ==
    \A p \in Procs :
      (frame[p].pc = "returned" /\ frame[p].enqueue_failed # {}) =>
        /\ frame[p].result.errors # <<>>
        /\ ~run_history[frame[p].history_row].success

\* Transcript rows of video v.
TranscriptsOf(v) == {i \in DOMAIN transcripts : transcripts[i].video_id = v}

\* C25: for every video for which the Transcript Client returned a text in the
\* cycle, exactly one Transcript is stored, with the language returned, the
\* video's failed_attempts counts its failed fetches and nothing else, and the
\* cycle has no error string about the video's transcript.
C25_TextPersisted ==
    \A p \in Procs : \A t \in frame[p].texts :
      /\ Cardinality(TranscriptsOf(t.video)) = 1
      /\ \A i \in TranscriptsOf(t.video) : transcripts[i].language = t.language
      /\ videos[t.video].failed_attempts = fetch_failures[t.video]
      /\ \A i \in DOMAIN frame[p].errors :
           frame[p].errors[i][1] \in {"No transcript available for", "Error fetching transcript for"}
             => frame[p].errors[i][2] # t.video

\* A cycle has returned in which the client returned a text for a video that had
\* failed before, while the fetch of another video failed.
C25_Witness ==
    \E p \in Procs :
      /\ frame[p].pc = "returned"
      /\ \E t \in frame[p].texts : fetch_failures[t.video] > 0
      /\ HasError(frame[p], "No transcript available for")

\* Positions of a cycle in stage 2 and in stage 3.
Stage2 == {"select_transcripts", "transcript", "increment_read", "increment_write"}

Stage3 == {"select_summaries", "summarize", "notify", "enqueue"}

\* Videos for which the Transcript Client returned a text in the cycle.
TextsOf(f) == {t.video : t \in f.texts}

\* C26: stage 2 starts when every channel has been processed and stage 3 when
\* stage 2 has no video left; a video discovered in a cycle for which the
\* Transcript Client returned a text and whose summarization did not fail has a
\* Transcript and a Summary when that cycle has returned.
C26_StagesInOrder ==
    \A p \in Procs :
      /\ frame[p].pc \in Stage2 \cup Stage3 => frame[p].channels = <<>>
      /\ frame[p].pc = "select_summaries" => frame[p].selection = <<>>
      /\ frame[p].pc = "returned" /\ ~HasError(frame[p], "Fatal error in check_and_process") =>
           \A v \in frame[p].inserted \cap TextsOf(frame[p]) :
             <<"Error summarizing", v>> \notin Range(frame[p].errors)
               => HasTranscript(v) /\ HasSummary(v)

\* A cycle has returned that discovered a video, and the video has a Transcript
\* and a Summary.
C26_Witness ==
    \E p \in Procs :
      /\ frame[p].pc = "returned"
      /\ \E v \in frame[p].inserted : HasTranscript(v) /\ HasSummary(v) /\ v \in frame[p].summarized

\* Videos that await a summary and for which the Summarization Client succeeds
\* when it is called.
Waiting == {v \in Range(get_videos_without_summaries) : v \notin rejected}

\* C27 (stage-3 progress, as a property of one cycle): a cycle that has called
\* the Summarization Client and has returned while a video for which the client
\* succeeds still awaits its summary has stored at least one summary.  The
\* videos it failed to summarize stay where they are in the selection, so a
\* cycle without a summary leaves nothing for the next cycle to do differently
\* and the waiting video is never summarized.
C27_SummaryProgress ==
    \A p \in Procs :
      (frame[p].pc = "returned" /\ frame[p].summarize_calls > 0 /\ Waiting # {})
        => frame[p].summarized # {}

\* C28 (stage-2 progress, as a property of one cycle): a cycle that has returned
\* and leaves videos for stage 2 to select (they were there when it ran: no
\* cycle makes a video selectable again) has called the Transcript Client, every
\* failed call is counted in the video's failed_attempts, and no video has more
\* than MaxFailedAttempts of them.
C28_TranscriptProgress ==
    /\ \A p \in Procs :
         (frame[p].pc = "returned" /\ get_videos_without_transcripts # <<>>)
           => frame[p].transcript_calls > 0
    /\ (\A p \in Procs : frame[p].pc \in Idle) =>
         \A v \in DOMAIN videos :
           /\ videos[v].failed_attempts = fetch_failures[v]
           /\ fetch_failures[v] <= MaxFailedAttempts

\* C29: every video that has a Summary has a Transcript, and no video has more
\* than one Transcript or more than one Summary.
C29_OneTranscriptOneSummary ==
    \A v \in DOMAIN videos :
      /\ HasSummary(v) => HasTranscript(v)
      /\ Cardinality(TranscriptsOf(v)) <= 1
      /\ Cardinality(SummariesOf(v)) <= 1

\* A video has its Transcript and its Summary, and an overlapping cycle that
\* fetched the same text was refused by the store.
C29_Witness ==
    \E v \in DOMAIN videos :
      /\ HasTranscript(v) /\ HasSummary(v)
      /\ \E p \in Procs : <<"Error fetching transcript for", v>> \in Range(frame[p].errors)

\* Calls of send_message for queue item i, and those that raised.
Attempts(i) == Cardinality({k \in DOMAIN worker.log : worker.log[k].item = i})

Failures(i) ==
    Cardinality({k \in DOMAIN worker.log :
                   worker.log[k].item = i /\ worker.log[k].outcome = "error"})

\* The worker has called send_message for item i and has not marked it yet.
Unmarked(i) == worker.pc \in {"mark_sent", "mark_failed"} /\ Head(worker.batch) = i

C30_Queue ==
    \A i \in DOMAIN telegram_queue :
      LET q == telegram_queue[i]
      IN /\ Attempts(i) <= q.max_retries
         /\ q.max_retries = MaxRetries
         /\ ~Unmarked(i) => q.retry_count = Failures(i)
         /\ q.status = "failed" <=> q.retry_count = q.max_retries
         /\ q.status = "sent" => Attempts(i) = Failures(i) + 1
         /\ (q.status = "pending" /\ ~Unmarked(i)) => Attempts(i) = Failures(i)

C30_Step ==
    /\ worker' = worker =>
         /\ \A i \in DOMAIN telegram_queue : telegram_queue'[i] = telegram_queue[i]
         /\ \A i \in DOMAIN telegram_queue' \ DOMAIN telegram_queue :
              telegram_queue'[i].status = "pending" /\ telegram_queue'[i].retry_count = 0
    /\ worker'.log # worker.log =>
         LET q == telegram_queue[Head(worker.batch)]
         IN q.status = "pending" /\ q.retry_count < q.max_retries

\* C30: a step of check_and_process changes no queue item and adds only items
\* in status pending with retry_count 0; the worker calls send_message only for
\* pending items below max_retries, at most max_retries (3) times per item;
\* retry_count counts the failed deliveries, an item is failed exactly when
\* retry_count has reached max_retries, and sent after its one delivery.
C30_DeliveryRetries == [](C30_Queue) /\ [][C30_Step]_vars

\* The worker has stopped; one item failed after three attempts and another was
\* sent after a failed delivery.
C30_Witness ==
    /\ worker.pc = "stopped"
    /\ \E i, j \in DOMAIN telegram_queue :
         /\ telegram_queue[i].status = "failed" /\ Attempts(i) = MaxRetries
         /\ telegram_queue[j].status = "sent" /\ Failures(j) >= 1

====
